---- MODULE Spec2Model ----
(***************************************************************************)
(* Model of the http_message crate: the line span scanner (span.rs), the   *)
(* lenient view PartialHttpRequest (models/partial_request.rs) and the     *)
(* strict view ParsedHttpRequest (models/parsed_request.rs), and the       *)
(* conversions of a view to HttpRequest (models/request.rs, headers.rs,    *)
(* uri.rs, version.rs).                                                    *)
(*                                                                         *)
(* A message buffer is a sequence of UTF-8 bytes, so that a span is a pair *)
(* of byte offsets exactly as in the source (Range<usize>, 0-based,        *)
(* half-open).  U+00A0 NO-BREAK SPACE is the two bytes C2 A0; it is        *)
(* whitespace for char::is_whitespace.  A panic of the source (a failed    *)
(* assert!, unwrap, expect or slice index) is the result kind "Panic".     *)
(***************************************************************************)
EXTENDS Integers, Sequences, FiniteSets, TLC

VARIABLES http, input, pc, line_spans, first_line_parts, partial, parsed, query

vars == <<http, input, pc, line_spans, first_line_parts, partial, parsed, query>>

-----------------------------------------------------------------------------
(* Bytes *)

LF == "LF"
CR == "CR"
SP == "SP"
NB1 == "C2"
NB2 == "A0"

\* Bounds of the checked inputs.
MaxLen == 6
MaxLines == 4

ShortAlphabet == {"G", ":", SP, LF, NB1, NB2}

\* A buffer is a Rust &str: every C2 lead byte is followed by its A0
\* continuation byte, and every continuation byte follows a lead byte.
ValidUtf8(s) ==
    \A i \in 1..Len(s) :
        /\ (s[i] = NB1 => (i < Len(s) /\ s[i + 1] = NB2))
        /\ (s[i] = NB2 => (i > 1 /\ s[i - 1] = NB1))

ShortTexts ==
    {s \in UNION {[1..n -> ShortAlphabet] : n \in 0..MaxLen} : ValidUtf8(s)}

RequestLines ==
    { <<"G", SP, "G", SP, "G", LF>>,
      <<"G", SP, SP, "G", SP, "G", SP, "G", LF>>,
      <<"G", SP, "G", LF>> }

Pieces ==
    { <<LF>>,
      <<"K", ":", LF>>,
      <<"k", ":", LF>>,
      <<"K", ":", "G", LF>>,
      <<"G">> }

RECURSIVE Flatten(_)
Flatten(ss) == IF ss = <<>> THEN <<>> ELSE Head(ss) \o Flatten(Tail(ss))

LineTexts ==
    {rl \o Flatten(ps) : rl \in RequestLines,
                         ps \in UNION {[1..n -> Pieces] : n \in 0..MaxLines}}

\* buffers with carriage-return + line-feed line endings
CrLfRequestLines ==
    { <<"G", SP, "G", SP, "G", CR, LF>>,
      <<"G", SP, "G", CR, LF>> }

CrLfPieces ==
    { <<CR, LF>>,
      <<"K", ":", CR, LF>>,
      <<LF>> }

CrLfTexts ==
    {rl \o Flatten(ps) : rl \in CrLfRequestLines,
                         ps \in UNION {[1..n -> CrLfPieces] : n \in 0..MaxLines}}

Inputs == ShortTexts \cup LineTexts \cup CrLfTexts

Keys == { <<"K">>, <<"k">>, <<"G">> }

-----------------------------------------------------------------------------
(* Option and Range *)

None == <<>>
Some(x) == <<x>>

Span(s, e) == [start |-> s, end |-> e]

\* ExactSizeIterator::len of Range<usize>
SpanLen(span) == IF span.start < span.end THEN span.end - span.start ELSE 0

\* Range::is_empty
SpanIsEmpty(span) == ~(span.start < span.end)

-----------------------------------------------------------------------------
(* str *)

\* char::len_utf8 of the char that starts at byte offset i
len_utf8(text, i) == IF text[i + 1] = NB1 THEN 2 ELSE 1

\* a char::is_whitespace for which the carriage return is no whitespace
is_whitespace_but_cr(text, i) ==
    \/ text[i + 1] \in {SP, LF}
    \/ (text[i + 1] = NB1 /\ i + 2 <= Len(text) /\ text[i + 2] = NB2)

\* char::is_whitespace of the char that starts at byte offset i
is_whitespace(text, i) ==
    \/ text[i + 1] \in {SP, LF, CR}
    \/ (text[i + 1] = NB1 /\ i + 2 <= Len(text) /\ text[i + 2] = NB2)

\* str::is_char_boundary
is_char_boundary(text, i) ==
    \/ i = 0
    \/ i = Len(text)
    \/ (i < Len(text) /\ text[i + 1] # NB2)

\* str::get(Range): None unless the range is ordered, in bounds and on
\* char boundaries
str_get(text, span) ==
    IF /\ span.start <= span.end
       /\ span.end <= Len(text)
       /\ is_char_boundary(text, span.start)
       /\ is_char_boundary(text, span.end)
    THEN Some(SubSeq(text, span.start + 1, span.end))
    ELSE None

\* &text[span] for a span that str_get accepts
Slice(text, span) == SubSeq(text, span.start + 1, span.end)

RECURSIVE trim_start(_)
trim_start(text) ==
    IF text = <<>> THEN text
    ELSE IF is_whitespace(text, 0)
         THEN trim_start(SubSeq(text, 1 + len_utf8(text, 0), Len(text)))
         ELSE text

\* byte offset at which the last char of a non-empty text starts
LastCharStart(text) ==
    IF text[Len(text)] = NB2 THEN Len(text) - 2 ELSE Len(text) - 1

RECURSIVE trim_end(_)
trim_end(text) ==
    IF text = <<>> THEN text
    ELSE IF is_whitespace(text, LastCharStart(text))
         THEN trim_end(SubSeq(text, 1, LastCharStart(text)))
         ELSE text

\* no trimming at all
trim_none(text) == text

\* strips U+0020 only
trim_spaces(text) ==
    IF \A i \in 1..Len(text) : text[i] = SP THEN <<>> ELSE text

\* str::trim
trim(text) == trim_end(trim_start(text))

starts_with(text, prefix) ==
    /\ Len(prefix) <= Len(text)
    /\ SubSeq(text, 1, Len(prefix)) = prefix

-----------------------------------------------------------------------------
(* span.rs *)

\* the for loop of get_line_spans, from the char at byte offset idx on
RECURSIVE line_scan(_, _, _, _)
line_scan(text, idx, start, spans) ==
    IF idx >= Len(text) THEN [start |-> start, spans |-> spans]
    ELSE LET n == len_utf8(text, idx)
         IN  IF text[idx + 1] = LF
             THEN line_scan(text, idx + n, idx + n,
                            Append(spans, Span(start, idx + n)))
             ELSE line_scan(text, idx + n, start, spans)

\* without the final unterminated line
get_line_spans_no_tail(text) == line_scan(text, 0, 0, <<>>).spans

get_line_spans(text) ==
    LET r == line_scan(text, 0, 0, <<>>)
    IN  IF r.start < Len(text)
        THEN Append(r.spans, Span(r.start, Len(text)))
        ELSE r.spans

-----------------------------------------------------------------------------
(* models/partial_request.rs *)

\* the for loop of parse_first_line, from the char at byte offset i on
RECURSIVE partial_first_line_scan(_, _, _, _)
partial_first_line_scan(first_line, i, last_end, parts) ==
    IF i >= Len(first_line) THEN [last_end |-> last_end, parts |-> parts]
    ELSE LET n == len_utf8(first_line, i)
         IN  IF is_whitespace(first_line, i)
             THEN partial_first_line_scan(first_line, i + n, i + 1,
                      IF i > last_end
                      THEN Append(parts, Span(last_end, i))
                      ELSE parts)
             ELSE partial_first_line_scan(first_line, i + n, last_end, parts)

\* Vec::get(i).cloned(), i 0-based
VecGet(v, i) == IF i < Len(v) THEN Some(v[i + 1]) ELSE None

FirstLineParts(method, uri, http_version) ==
    [method |-> method, uri |-> uri, http_version |-> http_version]

\* parse_first_line giving the first token to the version and the third to
\* the method
partial_parse_first_line_reversed(first_line) ==
    LET r == partial_first_line_scan(first_line, 0, 0, <<>>)
        parts == IF r.last_end < Len(first_line)
                 THEN Append(r.parts, Span(r.last_end, Len(first_line)))
                 ELSE r.parts
    IN  FirstLineParts(VecGet(parts, 2), VecGet(parts, 1), VecGet(parts, 0))

partial_parse_first_line(first_line) ==
    LET r == partial_first_line_scan(first_line, 0, 0, <<>>)
        parts == IF r.last_end < Len(first_line)
                 THEN Append(r.parts, Span(r.last_end, Len(first_line)))
                 ELSE r.parts
    IN  FirstLineParts(VecGet(parts, 0), VecGet(parts, 1), VecGet(parts, 2))

\* line_spans.iter().position(|span| span.len() == 1), 0-based
first_empty_line_idx(spans) ==
    LET hits == {i \in 1..Len(spans) : SpanLen(spans[i]) = 1}
    IN  IF hits = {} THEN None
        ELSE Some((CHOOSE i \in hits : \A j \in hits : i <= j) - 1)

\* line_spans[1..idx] and line_spans[idx..] panic when the range is not
\* ordered or not within the vector
partial_get_header_and_body_spans(spans, first_empty) ==
    IF first_empty # None
    THEN LET idx == first_empty[1]
         IN  IF 1 <= idx /\ idx <= Len(spans)
             THEN [panic |-> FALSE,
                   header_spans |-> SubSeq(spans, 2, idx),
                   body_spans |-> Some(SubSeq(spans, idx + 1, Len(spans)))]
             ELSE [panic |-> TRUE]
    ELSE IF 1 <= Len(spans)
         THEN [panic |-> FALSE,
               header_spans |-> SubSeq(spans, 2, Len(spans)),
               body_spans |-> None]
         ELSE [panic |-> TRUE]

\* the extent from the start of the blank line instead of the byte after it
partial_get_span_extent_keeps_blank(body_spans) ==
    IF body_spans = None THEN None
    ELSE LET spans == body_spans[1]
         IN  IF spans = <<>> THEN None
             ELSE Some(Span(spans[1].start, spans[Len(spans)].end))

partial_get_span_extent_from_spans(body_spans) ==
    IF body_spans = None THEN None
    ELSE LET spans == body_spans[1]
         IN  IF spans = <<>> THEN None
             ELSE Some(Span(spans[1].start + 1, spans[Len(spans)].end))

partial_assert_text_span(text, span) == str_get(text, span) # None

\* TRUE when verify_spans returns, FALSE when it panics
PartialHttpRequest_verify_spans(self) ==
    /\ self.method # None =>
           /\ self.method[1].start < self.method[1].end
           /\ partial_assert_text_span(self.message, self.method[1])
    /\ self.uri # None =>
           /\ self.uri[1].start < self.uri[1].end
           /\ partial_assert_text_span(self.message, self.uri[1])
           /\ self.method # None =>
                  /\ self.method[1].start < self.uri[1].start
                  /\ self.method[1].end < self.uri[1].start
    /\ self.http_version # None =>
           /\ self.http_version[1].start < self.http_version[1].end
           /\ partial_assert_text_span(self.message, self.http_version[1])
           /\ self.uri # None =>
                  /\ self.uri[1].start < self.http_version[1].start
                  /\ self.uri[1].end < self.http_version[1].start
    /\ \A i \in 1..Len(self.headers) :
           /\ self.headers[i].start < self.headers[i].end
           /\ partial_assert_text_span(self.message, self.headers[i])
    /\ self.body # None =>
           /\ self.body[1].start < self.body[1].end
           /\ partial_assert_text_span(self.message, self.body[1])

View(message, method, uri, http_version, headers, body) ==
    [message |-> message, method |-> method, uri |-> uri,
     http_version |-> http_version, headers |-> headers, body |-> body]

NotCalled == [kind |-> "None"]
Panic == [kind |-> "Panic"]
Ok(v) == [kind |-> "Ok", view |-> v]
Err(e) == [kind |-> "Err", error |-> e]

PartialHttpRequest_parsed(message, method, uri, http_version, headers, body) ==
    LET partial_ == View(message, method, uri, http_version, headers, body)
    IN  IF PartialHttpRequest_verify_spans(partial_) THEN Ok(partial_) ELSE Panic

partial_parse_request(input_) ==
    IF trim(input_) = <<>>
    THEN PartialHttpRequest_parsed(input_, None, None, None, <<>>, None)
    ELSE LET spans == get_line_spans(input_)
             first_empty == first_empty_line_idx(spans)
             first_line == VecGet(spans, 0)
             flp == IF first_line = None
                    THEN FirstLineParts(None, None, None)
                    ELSE partial_parse_first_line(Slice(input_, first_line[1]))
             hb == partial_get_header_and_body_spans(spans, first_empty)
         IN  IF hb.panic THEN Panic
             ELSE PartialHttpRequest_parsed(
                      input_, flp.method, flp.uri, flp.http_version,
                      hb.header_spans,
                      partial_get_span_extent_from_spans(hb.body_spans))

PartialHttpRequest_from_str(message) == partial_parse_request(message)

PartialHttpRequest_message(self) == self.message

\* impl Display: write!(f, "{}", self.message())
PartialHttpRequest_fmt(self) == PartialHttpRequest_message(self)

PartialHttpRequest_slice_message(self, span) == Slice(self.message, span)

PartialHttpRequest_body_str(self) ==
    IF self.body = None THEN None
    ELSE Some(Slice(self.message, self.body[1]))

PartialHttpRequest_uri_str(self) ==
    IF self.uri = None THEN None
    ELSE Some(PartialHttpRequest_slice_message(self, self.uri[1]))

PartialHttpRequest_method_str(self) ==
    IF self.method = None THEN None
    ELSE Some(PartialHttpRequest_slice_message(self, self.method[1]))

\* the text of the target where the version is absent
PartialHttpRequest_http_version_str_or_uri(self) ==
    IF self.http_version = None
    THEN (IF self.uri = None THEN None
          ELSE Some(PartialHttpRequest_slice_message(self, self.uri[1])))
    ELSE Some(PartialHttpRequest_slice_message(self, self.http_version[1]))

PartialHttpRequest_http_version_str(self) ==
    IF self.http_version = None THEN None
    ELSE Some(PartialHttpRequest_slice_message(self, self.http_version[1]))

\* the header lines in reverse order
PartialHttpRequest_header_strs_reversed(self) ==
    [i \in 1..Len(self.headers) |->
        PartialHttpRequest_slice_message(
            self, self.headers[Len(self.headers) + 1 - i])]

PartialHttpRequest_header_strs(self) ==
    [i \in 1..Len(self.headers) |->
        PartialHttpRequest_slice_message(self, self.headers[i])]

\* self.headers.iter().find(...), from the header at index i (1-based) on
RECURSIVE partial_find_header(_, _, _)
partial_find_header(self, key, i) ==
    IF i > Len(self.headers) THEN None
    ELSE IF starts_with(PartialHttpRequest_slice_message(self, self.headers[i]),
                        key \o <<":">>)
         THEN Some(self.headers[i])
         ELSE partial_find_header(self, key, i + 1)

PartialHttpRequest_header_span(self, key) == partial_find_header(self, key, 1)

PartialHttpRequest_header_str(self, key) ==
    LET found == PartialHttpRequest_header_span(self, key)
    IN  IF found = None THEN None
        ELSE Some(PartialHttpRequest_slice_message(self, found[1]))

-----------------------------------------------------------------------------
(* models/parsed_request.rs *)

\* the for loop of parse_first_line, from the char at byte offset i on
\* the loop splitting at the space alone
RECURSIVE parsed_first_line_scan_spaces(_, _, _, _)
parsed_first_line_scan_spaces(first_line, i, last_end, parts) ==
    IF i >= Len(first_line) THEN [last_end |-> last_end, parts |-> parts]
    ELSE LET n == len_utf8(first_line, i)
         IN  IF first_line[i + 1] = SP
             THEN parsed_first_line_scan_spaces(first_line, i + n, i + 1,
                      IF i > last_end
                      THEN Append(parts, Span(last_end, i))
                      ELSE parts)
             ELSE parsed_first_line_scan_spaces(first_line, i + n, last_end, parts)

RECURSIVE parsed_first_line_scan(_, _, _, _)
parsed_first_line_scan(first_line, i, last_end, parts) ==
    IF i >= Len(first_line) THEN [last_end |-> last_end, parts |-> parts]
    ELSE LET n == len_utf8(first_line, i)
         IN  IF is_whitespace(first_line, i)
             THEN parsed_first_line_scan(first_line, i + n, i + 1,
                      IF i > last_end
                      THEN Append(parts, Span(last_end, i))
                      ELSE parts)
             ELSE parsed_first_line_scan(first_line, i + n, last_end, parts)

parsed_parse_first_line(first_line) ==
    LET r == parsed_first_line_scan(first_line, 0, 0, <<>>)
        parts == IF r.last_end < Len(first_line)
                 THEN Append(r.parts, Span(r.last_end, Len(first_line)))
                 ELSE r.parts
    IN  FirstLineParts(VecGet(parts, 0), VecGet(parts, 1), VecGet(parts, 2))

\* line_spans[1..idx] and line_spans[idx..] panic when the range is not
\* ordered or not within the vector
parsed_get_header_and_body_spans_from_first_line(spans, idx) ==
    IF 1 <= idx /\ idx <= Len(spans)
    THEN [panic |-> FALSE,
          header_spans |-> SubSeq(spans, 1, idx),
          body_spans |-> Some(SubSeq(spans, idx + 1, Len(spans)))]
    ELSE [panic |-> TRUE]

parsed_get_header_and_body_spans(spans, idx) ==
    IF 1 <= idx /\ idx <= Len(spans)
    THEN [panic |-> FALSE,
          header_spans |-> SubSeq(spans, 2, idx),
          body_spans |-> Some(SubSeq(spans, idx + 1, Len(spans)))]
    ELSE [panic |-> TRUE]

parsed_get_span_extent_from_spans(body_spans) ==
    LET body_span ==
            IF body_spans = None THEN None
            ELSE LET spans == body_spans[1]
                 IN  IF spans = <<>> THEN None
                     ELSE Some(Span(spans[1].start + 1, spans[Len(spans)].end))
    IN  IF body_span # None /\ SpanIsEmpty(body_span[1])
        THEN None
        ELSE body_span

parsed_assert_text_span(text, span) == str_get(text, span) # None

\* TRUE when verify_spans returns, FALSE when it panics
ParsedHttpRequest_verify_spans(self) ==
    /\ self.method.start < self.method.end
    /\ parsed_assert_text_span(self.message, self.method)
    /\ self.uri.start < self.uri.end
    /\ parsed_assert_text_span(self.message, self.uri)
    /\ self.method.start < self.uri.start
    /\ self.method.end < self.uri.start
    /\ self.http_version.start < self.http_version.end
    /\ parsed_assert_text_span(self.message, self.http_version)
    /\ self.uri.start < self.http_version.start
    /\ self.uri.end < self.http_version.start
    /\ \A i \in 1..Len(self.headers) :
           /\ self.headers[i].start < self.headers[i].end
           /\ parsed_assert_text_span(self.message, self.headers[i])
    /\ self.body # None =>
           /\ self.body[1].start <= self.body[1].end
           /\ parsed_assert_text_span(self.message, self.body[1])

ParsedHttpRequest_parsed(message, method, uri, http_version, headers, body) ==
    LET parsed_ == View(message, method, uri, http_version, headers, body)
    IN  IF ParsedHttpRequest_verify_spans(parsed_) THEN Ok(parsed_) ELSE Panic

parsed_parse_request(input_) ==
    IF trim(input_) = <<>>
    THEN Err("EmptyHttpMessage")
    ELSE LET spans == get_line_spans(input_)
             first_empty == first_empty_line_idx(spans)
         IN  IF first_empty = None THEN Panic
             ELSE
             LET flp == parsed_parse_first_line(Slice(input_, spans[1]))
             IN  IF flp.method = None \/ flp.uri = None \/ flp.http_version = None
                 THEN Panic
                 ELSE
                 LET hb == parsed_get_header_and_body_spans(spans, first_empty[1])
                 IN  IF hb.panic THEN Panic
                     ELSE ParsedHttpRequest_parsed(
                              input_, flp.method[1], flp.uri[1],
                              flp.http_version[1], hb.header_spans,
                              parsed_get_span_extent_from_spans(hb.body_spans))

ParsedHttpRequest_from_str(message) == parsed_parse_request(message)

ParsedHttpRequest_message(self) == self.message

\* impl Display: write!(f, "{}", self.message())
ParsedHttpRequest_fmt(self) == ParsedHttpRequest_message(self)

ParsedHttpRequest_slice_message(self, span) == Slice(self.message, span)

ParsedHttpRequest_body_str(self) ==
    IF self.body = None THEN None
    ELSE Some(Slice(self.message, self.body[1]))

ParsedHttpRequest_uri_str(self) == ParsedHttpRequest_slice_message(self, self.uri)

ParsedHttpRequest_method_str(self) ==
    ParsedHttpRequest_slice_message(self, self.method)

ParsedHttpRequest_http_version_str(self) ==
    ParsedHttpRequest_slice_message(self, self.http_version)

ParsedHttpRequest_header_strs(self) ==
    [i \in 1..Len(self.headers) |->
        ParsedHttpRequest_slice_message(self, self.headers[i])]

\* self.headers.iter().find(...), from the header at index i (1-based) on
RECURSIVE parsed_find_header(_, _, _)
parsed_find_header(self, key, i) ==
    IF i > Len(self.headers) THEN None
    ELSE IF starts_with(ParsedHttpRequest_slice_message(self, self.headers[i]),
                        key \o <<":">>)
         THEN Some(self.headers[i])
         ELSE parsed_find_header(self, key, i + 1)

\* the last matching header instead of the first
ParsedHttpRequest_header_span_last(self, key) ==
    LET hits == {i \in 1..Len(self.headers) :
                    starts_with(ParsedHttpRequest_slice_message(self, self.headers[i]),
                                key \o <<":">>)}
    IN  IF hits = {} THEN None
        ELSE Some(self.headers[CHOOSE i \in hits : \A j \in hits : j <= i])

ParsedHttpRequest_header_span(self, key) == parsed_find_header(self, key, 1)

ParsedHttpRequest_header_str(self, key) ==
    LET found == ParsedHttpRequest_header_span(self, key)
    IN  IF found = None THEN None
        ELSE Some(ParsedHttpRequest_slice_message(self, found[1]))

-----------------------------------------------------------------------------
(* models/headers.rs, models/uri.rs, models/version.rs, models/request.rs *)

\* a call that returned x
Returned(x) == [kind |-> "Ok", value |-> x]

\* value.chars().position(|c| c == ':'): the number of chars before the
\* first colon, counting from the char at byte offset i as the n-th
RECURSIVE chars_position_colon(_, _, _)
chars_position_colon(value, i, n) ==
    IF i >= Len(value) THEN None
    ELSE IF value[i + 1] = ":" THEN Some(n)
         ELSE chars_position_colon(value, i + len_utf8(value, i), n + 1)

HttpHeader_new(key, value) == [key |-> key, value |-> value]

\* impl From<&str> for HttpHeader: expect, split_at and value[1..] panic
HttpHeader_from_str(value) ==
    LET index == chars_position_colon(value, 0, 0)
    IN  IF index = None THEN Panic
        ELSE IF ~is_char_boundary(value, index[1]) THEN Panic
        ELSE LET key == SubSeq(value, 1, index[1])
                 rest == SubSeq(value, index[1] + 1, Len(value))
             IN  IF Len(rest) < 1 \/ ~is_char_boundary(rest, 1) THEN Panic
                 ELSE Returned(HttpHeader_new(
                          key, trim(SubSeq(rest, 2, Len(rest)))))

HttpsScheme == <<"h", "t", "t", "p", "s", ":", "/", "/">>
HttpScheme == <<"h", "t", "t", "p", ":", "/", "/">>

\* u8::to_ascii_lowercase on the bytes of the model
ToAsciiLowercase(b) == IF b = "G" THEN "g" ELSE IF b = "K" THEN "k" ELSE b

\* Url::parse of scheme \o rest, for a rest of the bytes G K k : (a token
\* holds no whitespace, slash or digit): the host is the text before the
\* first colon and must not be empty, the port after the colon can only be
\* empty; the url is serialized with the host in lower case and the path /
Url_parse(scheme, rest) ==
    LET colons == {i \in 1..Len(rest) : rest[i] = ":"}
        host == IF colons = {} THEN rest
                ELSE SubSeq(rest, 1, (CHOOSE i \in colons : \A j \in colons : i <= j) - 1)
        port == SubSeq(rest, Len(host) + 2, Len(rest))
    IN  IF \/ host = <<>>
           \/ port # <<>>
           \/ \E i \in 1..Len(host) : host[i] \notin {"G", "K", "k"}
        THEN None
        ELSE Some(scheme \o [i \in 1..Len(host) |-> ToAsciiLowercase(host[i])]
                      \o <<"/">>)

\* Uri::new: unwrap_or_else(panic!)
Uri_new(uri) ==
    LET url == IF starts_with(uri, HttpsScheme)
               THEN Url_parse(HttpsScheme, SubSeq(uri, Len(HttpsScheme) + 1, Len(uri)))
               ELSE IF starts_with(uri, HttpScheme)
               THEN Url_parse(HttpScheme, SubSeq(uri, Len(HttpScheme) + 1, Len(uri)))
               ELSE Url_parse(HttpsScheme, uri)
    IN  IF url = None THEN Panic ELSE Returned(url[1])

\* impl From<&str> for HttpMethod with the names in either case
HttpMethod_from_any_case(value) ==
    IF value \in {<<"G", "E", "T">>, <<"g", "e", "t">>} THEN [variant |-> "GET"]
    ELSE IF value = <<"P", "O", "S", "T">> THEN [variant |-> "POST"]
    ELSE IF value = <<"P", "U", "T">> THEN [variant |-> "PUT"]
    ELSE IF value = <<"P", "A", "T", "C", "H">> THEN [variant |-> "PATCH"]
    ELSE IF value = <<"D", "E", "L", "E", "T", "E">> THEN [variant |-> "DELETE"]
    ELSE IF value = <<"H", "E", "A", "D">> THEN [variant |-> "HEAD"]
    ELSE IF value = <<"O", "P", "T", "I", "O", "N", "S">> THEN [variant |-> "OPTIONS"]
    ELSE [variant |-> "Other", text |-> value]

\* impl From<&str> for HttpMethod
HttpMethod_from(value) ==
    IF value = <<"G", "E", "T">> THEN [variant |-> "GET"]
    ELSE IF value = <<"P", "O", "S", "T">> THEN [variant |-> "POST"]
    ELSE IF value = <<"P", "U", "T">> THEN [variant |-> "PUT"]
    ELSE IF value = <<"P", "A", "T", "C", "H">> THEN [variant |-> "PATCH"]
    ELSE IF value = <<"D", "E", "L", "E", "T", "E">> THEN [variant |-> "DELETE"]
    ELSE IF value = <<"H", "E", "A", "D">> THEN [variant |-> "HEAD"]
    ELSE IF value = <<"O", "P", "T", "I", "O", "N", "S">> THEN [variant |-> "OPTIONS"]
    ELSE [variant |-> "Other", text |-> value]

\* impl From<&str> for HttpVersion
HttpVersion_from(value) == [text |-> value]

Http11 == <<"H", "T", "T", "P", "/", "1", ".", "1">>

HttpRequest(uri, method, http_version, headers, body) ==
    [uri |-> uri, method |-> method, http_version |-> http_version,
     headers |-> headers, body |-> body]

\* the struct literal of a conversion: Uri::new of the target text,
\* HttpMethod::from of the method text, HttpHeader::from of every header
\* line in order, the body text as it is; a panic of any of them is a panic
\* of the conversion
HttpRequest_build(uri, method, http_version, header_strs, body) ==
    LET target == Uri_new(uri)
        headers == [i \in 1..Len(header_strs) |-> HttpHeader_from_str(header_strs[i])]
    IN  IF target.kind = "Panic" THEN Panic
        ELSE IF \E i \in 1..Len(headers) : headers[i].kind = "Panic" THEN Panic
        ELSE Returned(HttpRequest(
                 target.value,
                 HttpMethod_from(method),
                 HttpVersion_from(http_version),
                 [i \in 1..Len(headers) |-> headers[i].value],
                 body))

\* impl From<PartialHttpRequest> for HttpRequest (request.rs): expect on the
\* target and the method, HTTP/1.1 for an absent version
HttpRequest_from_PartialHttpRequest(value) ==
    IF PartialHttpRequest_uri_str(value) = None THEN Panic
    ELSE IF PartialHttpRequest_method_str(value) = None THEN Panic
    ELSE HttpRequest_build(
             PartialHttpRequest_uri_str(value)[1],
             PartialHttpRequest_method_str(value)[1],
             IF PartialHttpRequest_http_version_str(value) = None THEN Http11
             ELSE PartialHttpRequest_http_version_str(value)[1],
             PartialHttpRequest_header_strs(value),
             PartialHttpRequest_body_str(value))

\* Error::missing_required
Error_missing_required(key) == [MissingRequired |-> key]

\* impl TryFrom<PartialHttpRequest> for HttpRequest, the conversion that
\* partial.try_into() of examples/partial.rs calls: MissingRequired for the
\* first absent field of method, target, version
HttpRequest_try_from_PartialHttpRequest(value) ==
    IF PartialHttpRequest_method_str(value) = None
    THEN Err(Error_missing_required("method"))
    ELSE IF PartialHttpRequest_uri_str(value) = None
    THEN Err(Error_missing_required("uri"))
    ELSE IF PartialHttpRequest_http_version_str(value) = None
    THEN Err(Error_missing_required("http_version"))
    ELSE HttpRequest_build(
             PartialHttpRequest_uri_str(value)[1],
             PartialHttpRequest_method_str(value)[1],
             PartialHttpRequest_http_version_str(value)[1],
             PartialHttpRequest_header_strs(value),
             PartialHttpRequest_body_str(value))

\* impl From<ParsedHttpRequest> for HttpRequest, the conversion that
\* parsed.into() of examples/parsed.rs calls
HttpRequest_from_ParsedHttpRequest(value) ==
    HttpRequest_build(
        ParsedHttpRequest_uri_str(value),
        ParsedHttpRequest_method_str(value),
        ParsedHttpRequest_http_version_str(value),
        ParsedHttpRequest_header_strs(value),
        ParsedHttpRequest_body_str(value))

HttpPrefix == <<"H", "T", "T", "P", "/">>

\* HttpVersion::is_prefixed for every text
HttpVersion_is_prefixed_always(self) == TRUE

HttpVersion_is_prefixed(self) == starts_with(self.text, HttpPrefix)

\* impl Display for HttpVersion
HttpVersion_fmt(self) ==
    IF HttpVersion_is_prefixed(self) THEN self.text
    ELSE HttpPrefix \o self.text

\* HttpRequest::get, for a uri that Uri::new accepts
HttpRequest_get(uri, headers) ==
    HttpRequest(Uri_new(uri).value, [variant |-> "GET"],
                HttpVersion_from(Http11), headers, None)

OkStatus == 200

\* HttpResponse::new
HttpResponse_new(status_code, headers, body) ==
    [status_code |-> status_code, headers |-> headers, body |-> body]

\* the 1-based index of the first header with the key, 0 when there is none:
\* self.headers.iter().find(|header| header.key() == key)
HeaderFind(headers, key) ==
    IF \E i \in 1..Len(headers) : headers[i].key = key
    THEN CHOOSE i \in 1..Len(headers) :
             /\ headers[i].key = key
             /\ \A j \in 1..(i - 1) : headers[j].key # key
    ELSE 0

\* the index of the last header with the key
HeaderFindLast(headers, key) ==
    IF \E i \in 1..Len(headers) : headers[i].key = key
    THEN CHOOSE i \in 1..Len(headers) :
             /\ headers[i].key = key
             /\ \A j \in (i + 1)..Len(headers) : headers[j].key # key
    ELSE 0

HttpRequest_get_header(self, key) ==
    IF HeaderFind(self.headers, key) = 0 THEN None
    ELSE Some(self.headers[HeaderFind(self.headers, key)])

\* set_header that pushes without looking for the key
HttpRequest_set_header_push(self, key, value) ==
    [self EXCEPT !.headers = Append(@, HttpHeader_new(key, value))]

HttpRequest_set_header(self, key, value) ==
    IF HeaderFind(self.headers, key) # 0
    THEN [self EXCEPT !.headers[HeaderFind(self.headers, key)] =
                          HttpHeader_new(key, value)]
    ELSE [self EXCEPT !.headers = Append(@, HttpHeader_new(key, value))]

HttpResponse_get_header(self, key) ==
    IF HeaderFind(self.headers, key) = 0 THEN None
    ELSE Some(self.headers[HeaderFind(self.headers, key)])

\* set_header that replaces the last header with the key
HttpResponse_set_header_last(self, key, value) ==
    IF HeaderFindLast(self.headers, key) # 0
    THEN [self EXCEPT !.headers[HeaderFindLast(self.headers, key)] =
                          HttpHeader_new(key, value)]
    ELSE [self EXCEPT !.headers = Append(@, HttpHeader_new(key, value))]

HttpResponse_set_header(self, key, value) ==
    IF HeaderFind(self.headers, key) # 0
    THEN [self EXCEPT !.headers[HeaderFind(self.headers, key)] =
                          HttpHeader_new(key, value)]
    ELSE [self EXCEPT !.headers = Append(@, HttpHeader_new(key, value))]

-----------------------------------------------------------------------------
(* The state machine: a caller picks a buffer, runs one of the scanner, the  *)
(* tokenizer, the lenient parse or the strict parse on it, and then reads    *)
(* the view it got through its accessors.                                    *)

NoQuery == [op |-> "none"]

Init ==
    /\ http = None
    /\ input \in Inputs
    /\ pc = "start"
    /\ line_spans = None
    /\ first_line_parts = None
    /\ partial = NotCalled
    /\ parsed = NotCalled
    /\ query = NoQuery

GetLineSpans ==
    /\ pc = "start"
    /\ line_spans' = Some(get_line_spans(input))
    /\ pc' = "line_spans"
    /\ UNCHANGED <<http, input, first_line_parts, partial, parsed, query>>

\* parse_first_line on the first line of the buffer, as parse_request calls it
ParseFirstLine ==
    /\ pc = "start"
    /\ get_line_spans(input) # <<>>
    /\ first_line_parts' =
           Some(partial_parse_first_line(Slice(input, get_line_spans(input)[1])))
    /\ pc' = "first_line"
    /\ UNCHANGED <<http, input, line_spans, partial, parsed, query>>

PartialFromStr ==
    /\ pc = "start"
    /\ partial' = PartialHttpRequest_from_str(input)
    /\ pc' = "partial"
    /\ UNCHANGED <<http, input, line_spans, first_line_parts, parsed, query>>

ParsedFromStr ==
    /\ pc = "start"
    /\ parsed' = ParsedHttpRequest_from_str(input)
    /\ pc' = "parsed"
    /\ UNCHANGED <<http, input, line_spans, first_line_parts, partial, query>>

PartialDisplay ==
    /\ pc = "partial" /\ partial.kind = "Ok"
    /\ query' = [op |-> "partial.fmt", result |-> PartialHttpRequest_fmt(partial.view)]
    /\ UNCHANGED <<http, input, pc, line_spans, first_line_parts, partial, parsed>>

PartialBodyStr ==
    /\ pc = "partial" /\ partial.kind = "Ok"
    /\ query' = [op |-> "partial.body_str",
                 result |-> PartialHttpRequest_body_str(partial.view)]
    /\ UNCHANGED <<http, input, pc, line_spans, first_line_parts, partial, parsed>>

PartialHeaderSpan(key) ==
    /\ pc = "partial" /\ partial.kind = "Ok"
    /\ query' = [op |-> "partial.header_span", key |-> key,
                 result |-> PartialHttpRequest_header_span(partial.view, key)]
    /\ UNCHANGED <<http, input, pc, line_spans, first_line_parts, partial, parsed>>

PartialHeaderStr(key) ==
    /\ pc = "partial" /\ partial.kind = "Ok"
    /\ query' = [op |-> "partial.header_str", key |-> key,
                 result |-> PartialHttpRequest_header_str(partial.view, key)]
    /\ UNCHANGED <<http, input, pc, line_spans, first_line_parts, partial, parsed>>

ParsedDisplay ==
    /\ pc = "parsed" /\ parsed.kind = "Ok"
    /\ query' = [op |-> "parsed.fmt", result |-> ParsedHttpRequest_fmt(parsed.view)]
    /\ UNCHANGED <<http, input, pc, line_spans, first_line_parts, partial, parsed>>

ParsedBodyStr ==
    /\ pc = "parsed" /\ parsed.kind = "Ok"
    /\ query' = [op |-> "parsed.body_str",
                 result |-> ParsedHttpRequest_body_str(parsed.view)]
    /\ UNCHANGED <<http, input, pc, line_spans, first_line_parts, partial, parsed>>

ParsedHeaderSpan(key) ==
    /\ pc = "parsed" /\ parsed.kind = "Ok"
    /\ query' = [op |-> "parsed.header_span", key |-> key,
                 result |-> ParsedHttpRequest_header_span(parsed.view, key)]
    /\ UNCHANGED <<http, input, pc, line_spans, first_line_parts, partial, parsed>>

ParsedHeaderStr(key) ==
    /\ pc = "parsed" /\ parsed.kind = "Ok"
    /\ query' = [op |-> "parsed.header_str", key |-> key,
                 result |-> ParsedHttpRequest_header_str(parsed.view, key)]
    /\ UNCHANGED <<http, input, pc, line_spans, first_line_parts, partial, parsed>>

\* HttpHeader::from on the buffer taken as one header line
HeaderFromStr ==
    /\ pc = "start"
    /\ query' = [op |-> "HttpHeader.from", result |-> HttpHeader_from_str(input)]
    /\ pc' = "header"
    /\ UNCHANGED <<http, input, line_spans, first_line_parts, partial, parsed>>

\* let request: HttpRequest = partial.into()
PartialInto ==
    /\ pc = "partial" /\ partial.kind = "Ok"
    /\ query' = [op |-> "partial.into",
                 result |-> HttpRequest_from_PartialHttpRequest(partial.view)]
    /\ UNCHANGED <<http, input, pc, line_spans, first_line_parts, partial, parsed>>

\* let request: Result<HttpRequest, Error> = partial.try_into()
PartialTryInto ==
    /\ pc = "partial" /\ partial.kind = "Ok"
    /\ query' = [op |-> "partial.try_into",
                 result |-> HttpRequest_try_from_PartialHttpRequest(partial.view)]
    /\ UNCHANGED <<http, input, pc, line_spans, first_line_parts, partial, parsed>>

\* let request: HttpRequest = parsed.into()
ParsedInto ==
    /\ pc = "parsed" /\ parsed.kind = "Ok"
    /\ query' = [op |-> "parsed.into",
                 result |-> HttpRequest_from_ParsedHttpRequest(parsed.view)]
    /\ UNCHANGED <<http, input, pc, line_spans, first_line_parts, partial, parsed>>

Next ==
    \/ GetLineSpans
    \/ ParseFirstLine
    \/ PartialFromStr
    \/ ParsedFromStr
    \/ PartialDisplay
    \/ PartialBodyStr
    \/ \E key \in Keys : PartialHeaderSpan(key)
    \/ \E key \in Keys : PartialHeaderStr(key)
    \/ ParsedDisplay
    \/ ParsedBodyStr
    \/ \E key \in Keys : ParsedHeaderSpan(key)
    \/ \E key \in Keys : ParsedHeaderStr(key)
    \/ HeaderFromStr
    \/ PartialInto
    \/ PartialTryInto
    \/ ParsedInto

Spec == Init /\ [][Next]_vars

-----------------------------------------------------------------------------
(* Direct construction: PartialHttpRequest::parsed and
   ParsedHttpRequest::parsed called with spans the caller supplies. *)

\* G G G\nK:\n\nG
DirectText == <<"G", SP, "G", SP, "G", LF, "K", ":", LF, LF, "G">>
\* G, U+00A0, G G
DirectTextNbsp == <<"G", NB1, NB2, "G", SP, "G">>
DirectMessages == {DirectText, DirectTextNbsp}

\* the spans of the parts of DirectText, and an empty, an inverted, an
\* overlapping and an out-of-bounds span; 1..2 is inside U+00A0 in
\* DirectTextNbsp
DirectSpans ==
    {Span(0, 1), Span(2, 3), Span(4, 5), Span(6, 9), Span(10, 11),
     Span(3, 3), Span(3, 2), Span(0, 3), Span(1, 2), Span(10, 12)}
DirectOptions == {None} \cup {Some(s) : s \in DirectSpans}
DirectHeaders ==
    {<<>>} \cup {<<s>> : s \in DirectSpans}
           \cup {<<s, t>> : s, t \in {Span(0, 1), Span(6, 9), Span(3, 3)}}

InitDirect ==
    /\ http = None
    /\ input \in DirectMessages
    /\ pc = "start"
    /\ line_spans = None
    /\ first_line_parts = None
    /\ partial = NotCalled
    /\ parsed = NotCalled
    /\ query = NoQuery

\* PartialHttpRequest::parsed(message, method, uri, http_version, headers,
\* body) with spans of the caller's choice
PartialParsed ==
    /\ pc = "start"
    /\ \E method, uri, http_version, body \in DirectOptions :
           \E headers \in DirectHeaders :
               partial' = PartialHttpRequest_parsed(
                              input, method, uri, http_version, headers, body)
    /\ pc' = "partial_direct"
    /\ UNCHANGED <<http, input, line_spans, first_line_parts, parsed, query>>

\* ParsedHttpRequest::parsed(message, method, uri, http_version, headers,
\* body) with spans of the caller's choice
ParsedParsed ==
    /\ pc = "start"
    /\ \E method, uri, http_version \in DirectSpans :
           \E headers \in DirectHeaders, body \in DirectOptions :
               parsed' = ParsedHttpRequest_parsed(
                             input, method, uri, http_version, headers, body)
    /\ pc' = "parsed_direct"
    /\ UNCHANGED <<http, input, line_spans, first_line_parts, partial, query>>

NextDirect ==
    \/ PartialParsed
    \/ ParsedParsed

SpecDirect == InitDirect /\ [][NextDirect]_vars

-----------------------------------------------------------------------------
(* The value types: HttpVersion, HttpMethod, and the headers of an
   HttpRequest or an HttpResponse. *)

\* Bound of the version texts.
MaxVersionLen == 6

VersionAlphabet == {"H", "T", "P", "/", "1"}
VersionTexts == UNION {[1..n -> VersionAlphabet] : n \in 0..MaxVersionLen}

MethodNames ==
    { <<"G", "E", "T">>, <<"P", "O", "S", "T">>, <<"P", "U", "T">>,
      <<"P", "A", "T", "C", "H">>, <<"D", "E", "L", "E", "T", "E">>,
      <<"H", "E", "A", "D">>, <<"O", "P", "T", "I", "O", "N", "S">> }
MethodTexts ==
    MethodNames \cup
    { <<>>, <<"g", "e", "t">>, <<"G", "e", "t">>, <<"G", "E", "T", "S">>,
      <<"G", "E">>, <<"G", "E", "T", SP>>, <<"p", "o", "s", "t">>,
      <<"O", "t", "h", "e", "r">>, <<"H", "T", "T", "P">> }

HeaderValues == { <<"G">>, <<"K">> }
InitialHeaders ==
    { <<>>,
      <<HttpHeader_new(<<"K">>, <<"G">>)>>,
      <<HttpHeader_new(<<"K">>, <<"G">>), HttpHeader_new(<<"k">>, <<"G">>),
        HttpHeader_new(<<"K">>, <<"K">>)>> }
InitialMessages ==
    {HttpRequest_get(<<"G">>, headers) : headers \in InitialHeaders}
    \cup {HttpResponse_new(OkStatus, headers, Some(<<"G">>)) :
              headers \in InitialHeaders}

IsRequest(message) == "uri" \in DOMAIN message

InitValues ==
    /\ \/ input \in VersionTexts \cup MethodTexts /\ http = None
       \/ input = <<>> /\ http \in {Some(m) : m \in InitialMessages}
    /\ pc = "start"
    /\ line_spans = None
    /\ first_line_parts = None
    /\ partial = NotCalled
    /\ parsed = NotCalled
    /\ query = NoQuery

\* format!("{}", HttpVersion::from(input))
VersionFmt ==
    /\ pc = "start" /\ http = None
    /\ query' = [op |-> "HttpVersion.fmt",
                 result |-> HttpVersion_fmt(HttpVersion_from(input))]
    /\ pc' = "version"
    /\ UNCHANGED <<http, input, line_spans, first_line_parts, partial, parsed>>

\* the rendered text made a version and rendered again
VersionFmtAgain ==
    /\ pc = "version"
    /\ query' = [op |-> "HttpVersion.fmt.again",
                 text |-> query.result,
                 result |-> HttpVersion_fmt(HttpVersion_from(query.result))]
    /\ pc' = "version_again"
    /\ UNCHANGED <<http, input, line_spans, first_line_parts, partial, parsed>>

\* HttpMethod::from(input)
MethodFrom ==
    /\ pc = "start" /\ http = None
    /\ query' = [op |-> "HttpMethod.from", result |-> HttpMethod_from(input)]
    /\ pc' = "method"
    /\ UNCHANGED <<http, input, line_spans, first_line_parts, partial, parsed>>

RequestSetHeader(key, value) ==
    /\ pc \in {"start", "headers"}
    /\ http # None /\ IsRequest(http[1])
    /\ http' = Some(HttpRequest_set_header(http[1], key, value))
    /\ query' = [op |-> "set_header", key |-> key, value |-> value]
    /\ pc' = "headers"
    /\ UNCHANGED <<input, line_spans, first_line_parts, partial, parsed>>

RequestGetHeader(key) ==
    /\ pc \in {"start", "headers"}
    /\ http # None /\ IsRequest(http[1])
    /\ query' = [op |-> "get_header", key |-> key,
                 result |-> HttpRequest_get_header(http[1], key)]
    /\ pc' = "headers"
    /\ UNCHANGED <<http, input, line_spans, first_line_parts, partial, parsed>>

ResponseSetHeader(key, value) ==
    /\ pc \in {"start", "headers"}
    /\ http # None /\ ~IsRequest(http[1])
    /\ http' = Some(HttpResponse_set_header(http[1], key, value))
    /\ query' = [op |-> "set_header", key |-> key, value |-> value]
    /\ pc' = "headers"
    /\ UNCHANGED <<input, line_spans, first_line_parts, partial, parsed>>

ResponseGetHeader(key) ==
    /\ pc \in {"start", "headers"}
    /\ http # None /\ ~IsRequest(http[1])
    /\ query' = [op |-> "get_header", key |-> key,
                 result |-> HttpResponse_get_header(http[1], key)]
    /\ pc' = "headers"
    /\ UNCHANGED <<http, input, line_spans, first_line_parts, partial, parsed>>

NextValues ==
    \/ VersionFmt
    \/ VersionFmtAgain
    \/ MethodFrom
    \/ \E key \in Keys, value \in HeaderValues : RequestSetHeader(key, value)
    \/ \E key \in Keys : RequestGetHeader(key)
    \/ \E key \in Keys, value \in HeaderValues : ResponseSetHeader(key, value)
    \/ \E key \in Keys : ResponseGetHeader(key)

SpecValues == InitValues /\ [][NextValues]_vars

-----------------------------------------------------------------------------
(* Vocabulary of the properties *)

Min(S) == CHOOSE x \in S : \A y \in S : x <= y

\* byte offsets at which a char of the text starts
CharStarts(text) == {i \in 0..(Len(text) - 1) : text[i + 1] # NB2}

\* the text is empty or every char of it is whitespace
IsBlank(text) == \A i \in CharStarts(text) : is_whitespace(text, i)

\* indices (1-based) of the lines that are nothing but a line feed
TerminatorOnlyLines(text) ==
    LET ls == get_line_spans(text)
    IN  {i \in 1..Len(ls) : Slice(text, ls[i]) = <<LF>>}

\* [a, b) is a maximal run of non-whitespace chars of the line
IsRun(line, a, b) ==
    /\ a < b
    /\ is_char_boundary(line, a) /\ is_char_boundary(line, b)
    /\ \A i \in CharStarts(line) : (a <= i /\ i < b) => ~is_whitespace(line, i)
    /\ \/ a = 0
       \/ \E q \in CharStarts(line) :
             q + len_utf8(line, q) = a /\ is_whitespace(line, q)
    /\ \/ b = Len(line)
       \/ is_whitespace(line, b)

Runs(line) ==
    {r \in {Span(a, b) : a \in 0..Len(line), b \in 0..Len(line)} :
        IsRun(line, r.start, r.end)}

\* the n-th run from the left, absent when there are fewer than n runs
NthRun(line, n) ==
    LET rs == Runs(line)
    IN  IF Cardinality(rs) < n THEN None
        ELSE Some(CHOOSE r \in rs :
                     Cardinality({q \in rs : q.start < r.start}) = n - 1)

FirstLineText(text) == Slice(text, get_line_spans(text)[1])

\* the views a parse has returned in this state
OkViews ==
    (IF pc = "partial" /\ partial.kind = "Ok" THEN {partial.view} ELSE {})
    \cup (IF pc = "parsed" /\ parsed.kind = "Ok" THEN {parsed.view} ELSE {})

\* text starts with exactly the key followed by a colon
HasKeyPrefix(text, key) ==
    /\ Len(text) > Len(key)
    /\ \A j \in 1..Len(key) : text[j] = key[j]
    /\ text[Len(key) + 1] = ":"

\* indices of the header spans of a view whose line has the key prefix
Matches(view, key) ==
    {i \in 1..Len(view.headers) :
        HasKeyPrefix(Slice(view.message, view.headers[i]), key)}

-----------------------------------------------------------------------------
(* C1: lenient parsing of every input text returns Ok, and rendering the   *)
(* view gives exactly the input text.                                      *)
C1_LenientRoundTrip ==
    /\ pc = "partial" => partial.kind = "Ok"
    /\ query.op = "partial.fmt" => query.result = input

(* C2: strict parsing returns the typed error EmptyHttpMessage if and only *)
(* if the buffer is empty or all whitespace; it returns no other typed     *)
(* error, and no view for such a buffer.                                   *)
C2_StrictEmptyError ==
    pc = "parsed" =>
        /\ (parsed.kind = "Err") <=> IsBlank(input)
        /\ parsed.kind = "Err" => parsed.error = "EmptyHttpMessage"
        /\ IsBlank(input) => parsed.kind # "Ok"

C2_Witness ==
    /\ pc = "parsed" /\ parsed.kind = "Err"
    /\ Len(input) >= 2
    /\ \E i \in 1..Len(input) : input[i] = NB1

(* C3: lenient parsing of an empty, blank-line-only or whitespace-only     *)
(* buffer returns Ok with method, target and version absent, no headers    *)
(* and no body, holding the buffer unchanged.                              *)
C3_LenientBlankView ==
    (pc = "partial" /\ IsBlank(input)) =>
        partial = Ok(View(input, None, None, None, <<>>, None))

C3_Witness ==
    /\ pc = "partial" /\ partial.kind = "Ok"
    /\ input = <<LF>>

(* C4: the spans of get_line_spans partition the buffer: contiguous from 0 *)
(* to the buffer length, each non-empty, each but possibly the last ending *)
(* with a line feed, no line feed elsewhere in a span, none for the empty  *)
(* buffer.                                                                 *)
C4_LineSpansPartition ==
    pc = "line_spans" =>
        LET spans == line_spans[1]
            n == Len(spans)
        IN  /\ (n = 0) <=> (input = <<>>)
            /\ n > 0 => (spans[1].start = 0 /\ spans[n].end = Len(input))
            /\ \A i \in 1..n :
                   /\ spans[i].start < spans[i].end
                   /\ i < n => /\ spans[i + 1].start = spans[i].end
                               /\ input[spans[i].end] = LF
                   /\ \A j \in (spans[i].start + 1)..(spans[i].end - 1) :
                          input[j] # LF

C4_Witness ==
    /\ pc = "line_spans"
    /\ Len(line_spans[1]) >= 3
    /\ input[Len(input)] # LF

(* C5: parse_first_line returns as method, target and version the first,   *)
(* second and third maximal runs of non-whitespace chars of the first      *)
(* line, as spans that slice the buffer to the token text; absent where    *)
(* there is no such run.                                                   *)
C5_FirstLineTokens ==
    pc = "first_line" =>
        LET line == FirstLineText(input)
            parts == first_line_parts[1]
            SlicesTo(part) ==
                part # None => str_get(input, part[1]) = Some(Slice(line, part[1]))
        IN  /\ parts.method = NthRun(line, 1)
            /\ parts.uri = NthRun(line, 2)
            /\ parts.http_version = NthRun(line, 3)
            /\ SlicesTo(parts.method)
            /\ SlicesTo(parts.uri)
            /\ SlicesTo(parts.http_version)

(* C6: in a view of a non-blank buffer the header spans are the line spans *)
(* strictly between the first line and the first terminator-only line, or  *)
(* all line spans after the first line when there is no such line.         *)
C6_HeaderSpansBetween ==
    \A view \in OkViews :
        ~IsBlank(input) =>
            LET ls == get_line_spans(input)
                blanks == TerminatorOnlyLines(input)
            IN  view.headers =
                    IF blanks = {} THEN SubSeq(ls, 2, Len(ls))
                    ELSE SubSeq(ls, 2, Min(blanks) - 1)

(* C7: when a blank line is followed by at least one byte, the body span   *)
(* of a view runs from the byte after the first blank line to the end of   *)
(* the buffer and body_str is that suffix; with no blank line the body is  *)
(* absent.  BodyRule states it for one view; the claim as written covers   *)
(* every buffer, the amended claim every buffer that is not blank.         *)
BodyRule(view) ==
    LET ls == get_line_spans(input)
        blanks == TerminatorOnlyLines(input)
    IN  /\ blanks = {} => view.body = None
        /\ (blanks # {} /\ ls[Min(blanks)].end < Len(input)) =>
               /\ view.body = Some(Span(ls[Min(blanks)].end, Len(input)))
               /\ query.op \in {"partial.body_str", "parsed.body_str"} =>
                      query.result =
                          Some(SubSeq(input, ls[Min(blanks)].end + 1, Len(input)))

C7_BodyIsSuffixAnyBuffer == \A view \in OkViews : BodyRule(view)

C7_BodyIsSuffix == \A view \in OkViews : ~IsBlank(input) => BodyRule(view)

C7_Witness ==
    /\ pc = "partial" /\ partial.kind = "Ok"
    /\ query.op = "partial.body_str"
    /\ query.result # None
    /\ Cardinality(TerminatorOnlyLines(input)) >= 2
    /\ input[Len(input)] # LF

(* C8: in both modes, when the first blank line is the last thing in the   *)
(* buffer, the parse succeeds and the body is absent.                      *)
C8_BlankLineLastBodyAbsent ==
    LET ls == get_line_spans(input)
        blanks == TerminatorOnlyLines(input)
    IN  (/\ ~IsBlank(input)
         /\ blanks # {}
         /\ ls[Min(blanks)].end = Len(input)) =>
            /\ pc = "partial" =>
                   (partial.kind = "Ok" /\ partial.view.body = None)
            /\ (pc = "parsed" /\ NthRun(FirstLineText(input), 3) # None) =>
                   (parsed.kind = "Ok" /\ parsed.view.body = None)

(* C9: the line taken as the header/body separator is a line of nothing    *)
(* but a line feed, and strict parsing succeeds only when the buffer has   *)
(* such a line.                                                            *)
C9_SeparatorIsTerminatorOnly ==
    /\ (pc = "parsed" /\ parsed.kind = "Ok") => TerminatorOnlyLines(input) # {}
    /\ \A view \in OkViews :
           LET ls == get_line_spans(input)
               after == Len(view.headers) + 2
           IN  (~IsBlank(input) /\ after <= Len(ls)) =>
                   Slice(input, ls[after]) = <<LF>>

(* C10: header_span(key) and header_str(key) return the first header line  *)
(* that starts with the key followed by a colon, compared byte for byte,   *)
(* and absent when there is none.                                          *)
C10_HeaderLookupFirstMatch ==
    \A view \in OkViews :
        /\ query.op \in {"partial.header_span", "parsed.header_span"} =>
               LET hits == Matches(view, query.key)
               IN  query.result =
                       IF hits = {} THEN None ELSE Some(view.headers[Min(hits)])
        /\ query.op \in {"partial.header_str", "parsed.header_str"} =>
               LET hits == Matches(view, query.key)
               IN  query.result =
                       IF hits = {} THEN None
                       ELSE Some(Slice(input, view.headers[Min(hits)]))

C10_Witness ==
    /\ pc = "parsed" /\ parsed.kind = "Ok"
    /\ query.op = "parsed.header_span"
    /\ Cardinality(Matches(parsed.view, query.key)) >= 2
    /\ \E i \in 1..Len(parsed.view.headers) :
           /\ i < Min(Matches(parsed.view, query.key))
           /\ HasKeyPrefix(Slice(input, parsed.view.headers[i]), <<"k">>)
    /\ query.result = Some(parsed.view.headers[Min(Matches(parsed.view, query.key))])


-----------------------------------------------------------------------------
(* Conversions to HttpRequest *)

\* the buffer whose first line holds a method and a target and no version,
\* followed by the header line K:G
ScenarioA == <<"G", SP, "G", LF, "K", ":", "G", LF>>

DefaultsVersion(view, request) ==
    /\ request.http_version = HttpVersion_from(Http11)
    /\ request.method = HttpMethod_from(Slice(view.message, view.method[1]))
    /\ request.uri = Uri_new(Slice(view.message, view.uri[1])).value
    /\ Len(request.headers) = Len(view.headers)
    /\ request.body = (IF view.body = None THEN None
                       ELSE Some(Slice(view.message, view.body[1])))

\* C12: the conversion of a lenient view that has a method and a target
\* and no version succeeds, with http_version HTTP/1.1 and the other
\* fields taken from the view.
C12_IntoDefaultsVersion ==
    ( /\ pc = "partial" /\ query.op = "partial.into"
      /\ partial.view.method # None /\ partial.view.uri # None
      /\ partial.view.http_version = None )
    => /\ query.result.kind = "Ok"
       /\ DefaultsVersion(partial.view, query.result.value)

\* the same for the conversions that return
C12_IntoDefaultsVersionWhenReturned ==
    ( /\ pc = "partial" /\ query.op = "partial.into"
      /\ partial.view.method # None /\ partial.view.uri # None
      /\ partial.view.http_version = None
      /\ query.result.kind = "Ok" )
    => DefaultsVersion(partial.view, query.result.value)

\* C13: the conversion of a strict view that from_str returned never fails
\* and never faults, whatever the target text and the header lines are.
C13_StrictIntoNeverFaults ==
    (pc = "parsed" /\ query.op = "parsed.into") => query.result.kind = "Ok"

\* the 1-based position of the first colon byte of a text that has one
FirstColon(text) == Min({i \in 1..Len(text) : text[i] = ":"})

\* C14: for every line that contains a colon, HttpHeader::from yields the
\* text before the first colon as the key and the trimmed text after it as
\* the value, multi-byte keys and values with further colons included.
C14_HeaderSplitsAtFirstColon ==
    ( /\ pc = "header" /\ query.op = "HttpHeader.from"
      /\ \E i \in 1..Len(input) : input[i] = ":" )
    => query.result =
           Returned(HttpHeader_new(
               SubSeq(input, 1, FirstColon(input) - 1),
               trim(SubSeq(input, FirstColon(input) + 1, Len(input)))))

\* C15: the headers of a converted HttpRequest are the header lines of the
\* view, one per line and in the order of the lines; a repeated key is kept.
C15_HeadersKeepOrderAndNumber ==
    (pc = "partial" /\ query.op = "partial.into" /\ query.result.kind = "Ok")
    => LET view == partial.view
           headers == query.result.value.headers
       IN  /\ Len(headers) = Len(view.headers)
           /\ \A i \in 1..Len(headers) :
                  Returned(headers[i]) =
                      HttpHeader_from_str(Slice(view.message, view.headers[i]))

C15_Witness ==
    /\ pc = "partial" /\ query.op = "partial.into" /\ query.result.kind = "Ok"
    /\ Len(partial.view.headers) >= 2
    /\ Len(query.result.value.headers) >= 2
    /\ query.result.value.headers[1].key = query.result.value.headers[2].key
    /\ query.result.value.headers[1].value # query.result.value.headers[2].value


-----------------------------------------------------------------------------
(* Direct construction *)

\* the spans a directly constructed view holds
DirectViewSpans ==
    IF pc = "partial_direct" /\ partial.kind = "Ok"
    THEN LET view == partial.view
         IN  {view.headers[i] : i \in 1..Len(view.headers)}
             \cup {o[1] : o \in {view.method, view.uri, view.http_version,
                                  view.body} \ {None}}
    ELSE IF pc = "parsed_direct" /\ parsed.kind = "Ok"
    THEN LET view == parsed.view
         IN  {view.headers[i] : i \in 1..Len(view.headers)}
             \cup {view.method, view.uri, view.http_version}
             \cup {o[1] : o \in {view.body} \ {None}}
    ELSE {}

\* C16: direct construction faults whenever a present span is out of
\* bounds or does not have start < end, so a constructed view never holds
\* an out-of-bounds, an inverted or an empty span.
C16_DirectSpansInBoundsNonEmpty ==
    \A span \in DirectViewSpans :
        /\ 0 <= span.start
        /\ span.start < span.end
        /\ span.end <= Len(input)

\* the parts of a directly constructed view, as sets of spans: the first
\* line tokens in their order, the header lines, the body
DirectParts ==
    IF pc = "partial_direct" /\ partial.kind = "Ok"
    THEN LET view == partial.view
         IN  <<{o[1] : o \in {view.method} \ {None}},
               {o[1] : o \in {view.uri} \ {None}},
               {o[1] : o \in {view.http_version} \ {None}},
               {view.headers[i] : i \in 1..Len(view.headers)},
               {o[1] : o \in {view.body} \ {None}}>>
    ELSE IF pc = "parsed_direct" /\ parsed.kind = "Ok"
    THEN LET view == parsed.view
         IN  <<{view.method}, {view.uri}, {view.http_version},
               {view.headers[i] : i \in 1..Len(view.headers)},
               {o[1] : o \in {view.body} \ {None}}>>
    ELSE <<{}, {}, {}, {}, {}>>

\* C17: direct construction faults unless the present spans are in strict
\* left-to-right order: method before target before version before every
\* header before the body.
C17_DirectSpansInOrder ==
    \A m, n \in 1..5 :
        m < n => \A a \in DirectParts[m], b \in DirectParts[n] :
                    a.end <= b.start

\* the order that verify_spans does check: method before target and target
\* before version, each with a gap
C17_DirectTokensInOrder ==
    \A m \in 1..2 :
        \A a \in DirectParts[m], b \in DirectParts[m + 1] : a.end < b.start


-----------------------------------------------------------------------------
(* The views of from_str *)

\* the first line tokens a view holds, as sets of spans in token order
ViewTokens(view) ==
    IF pc = "partial"
    THEN <<{o[1] : o \in {view.method} \ {None}},
           {o[1] : o \in {view.uri} \ {None}},
           {o[1] : o \in {view.http_version} \ {None}}>>
    ELSE <<{view.method}, {view.uri}, {view.http_version}>>

\* where the first line of the buffer ends
FirstLineEnd ==
    IF \E i \in 1..Len(input) : input[i] = LF
    THEN Min({i \in 1..Len(input) : input[i] = LF})
    ELSE Len(input)

\* C18: in every view from_str returns, lenient or strict, the method ends
\* before the target starts and the target before the version, all three
\* inside the first line; the header spans start at or after the end of
\* the first line, ascending and without overlap; the body starts after
\* the last header and the blank line.
C18_ViewSpansInOrder ==
    \A view \in OkViews :
        LET tokens == ViewTokens(view)
            headers == view.headers
            first_end == FirstLineEnd
        IN  /\ \A m, n \in 1..3 :
                   m < n => \A a \in tokens[m], b \in tokens[n] : a.end < b.start
            /\ \A m \in 1..3 : \A a \in tokens[m] :
                   0 <= a.start /\ a.start < a.end /\ a.end <= first_end
            /\ \A i \in 1..Len(headers) :
                   /\ first_end <= headers[i].start
                   /\ headers[i].start < headers[i].end
                   /\ i < Len(headers) => headers[i].end <= headers[i + 1].start
            /\ view.body # None =>
                   /\ first_end < view.body[1].start
                   /\ \A i \in 1..Len(headers) :
                          headers[i].end < view.body[1].start
                   /\ view.body[1].end = Len(input)

C18_Witness ==
    \E view \in OkViews :
        /\ pc = "parsed"
        /\ Len(view.headers) >= 2
        /\ view.body # None

\* span lies within the buffer and starts and ends on a code-point boundary
OnBoundaries(span) ==
    /\ 0 <= span.start /\ span.start <= span.end /\ span.end <= Len(input)
    /\ is_char_boundary(input, span.start)
    /\ is_char_boundary(input, span.end)

\* the spans of the views from_str returned in this state
ViewSpans ==
    UNION {ViewTokens(view)[1] \cup ViewTokens(view)[2] \cup ViewTokens(view)[3]
           \cup {view.headers[i] : i \in 1..Len(view.headers)}
           \cup {o[1] : o \in {view.body} \ {None}} : view \in OkViews}

\* the spans get_line_spans returned in this state
LineSpans ==
    IF pc = "line_spans" THEN {line_spans[1][i] : i \in 1..Len(line_spans[1])}
    ELSE {}

\* the spans parse_first_line returned in this state
FirstLineSpans ==
    IF pc = "first_line"
    THEN {o[1] : o \in {first_line_parts[1].method, first_line_parts[1].uri,
                         first_line_parts[1].http_version} \ {None}}
    ELSE {}

\* C19: for every buffer, multi-byte whitespace and token chars included,
\* every span the pipeline produces (line spans, first line tokens, the
\* spans of a view) lies within the buffer and starts and ends on a
\* code-point boundary.
C19_SpansOnCharBoundaries ==
    \A span \in LineSpans \cup FirstLineSpans \cup ViewSpans : OnBoundaries(span)

\* the same for the spans of the line scan and of the views alone
C19_LineAndViewSpansOnCharBoundaries ==
    \A span \in LineSpans \cup ViewSpans : OnBoundaries(span)

\* C20: whenever the strict from_str returns Ok, the method, the target and
\* the version of the view are the first three tokens of the first line,
\* each non-empty; a first line with fewer than three tokens never yields
\* a strict view.
C20_StrictHasThreeTokens ==
    (pc = "parsed" /\ parsed.kind = "Ok") =>
        LET view == parsed.view
            runs == Runs(FirstLineText(input))
            Before(span) == Cardinality({r \in runs : r.start < span.start})
        IN  /\ Cardinality(runs) >= 3
            /\ view.method \in runs /\ Before(view.method) = 0
            /\ view.uri \in runs /\ Before(view.uri) = 1
            /\ view.http_version \in runs /\ Before(view.http_version) = 2
            /\ ParsedHttpRequest_method_str(view) # <<>>
            /\ ParsedHttpRequest_uri_str(view) # <<>>
            /\ ParsedHttpRequest_http_version_str(view) # <<>>

C20_Witness ==
    /\ pc = "parsed" /\ parsed.kind = "Ok"
    /\ query.op = "parsed.into" /\ query.result.kind = "Ok"
    /\ Cardinality(Runs(FirstLineText(input))) > 3


-----------------------------------------------------------------------------
(* Headers of HttpRequest and HttpResponse, HttpVersion, HttpMethod *)

\* get_header of the request or the response
GetHeader(message, key) ==
    IF IsRequest(message) THEN HttpRequest_get_header(message, key)
    ELSE HttpResponse_get_header(message, key)

\* C21: after any sequence of set_header calls, get_header of the key of
\* the most recent set_header(k, v) returns the header (k, v); a key is found
\* only if it was found before or is the key just set, so get_header of a
\* key never set and not among the initial headers returns absent.
C21_GetHeaderAfterSetHeader ==
    [][ /\ query'.op = "set_header" =>
               GetHeader(http'[1], query'.key) =
                   Some(HttpHeader_new(query'.key, query'.value))
        /\ ( /\ query.op = "set_header" /\ query'.op = "get_header"
             /\ query'.key = query.key ) =>
               query'.result = Some(HttpHeader_new(query.key, query.value))
        /\ query'.op = "get_header" =>
               /\ query'.result = GetHeader(http'[1], query'.key)
               /\ (\A j \in 1..Len(http[1].headers) :
                       http[1].headers[j].key # query'.key)
                   => query'.result = None
        /\ (http # None /\ http' # None) =>
               \A key \in Keys :
                   GetHeader(http'[1], key) # None =>
                       \/ GetHeader(http[1], key) # None
                       \/ query'.op = "set_header" /\ query'.key = key
      ]_vars

C21_Witness ==
    /\ http # None /\ IsRequest(http[1])
    /\ Len(http[1].headers) = 3
    /\ http[1].headers[1] = HttpHeader_new(<<"K">>, <<"K">>)
    /\ query = [op |-> "get_header", key |-> <<"K">>,
                result |-> Some(HttpHeader_new(<<"K">>, <<"K">>))]

\* C22: set_header(k, v) changes at most one header: where a header with
\* key k exists, the first such header becomes (k, v) and every other header
\* keeps its position and value; otherwise (k, v) is appended and every
\* existing header keeps its position and value; the body and the other
\* fields do not change.
C22_SetHeaderChangesOneHeader ==
    [][ query'.op = "set_header" =>
            LET old == http[1].headers
                new == http'[1].headers
                header == HttpHeader_new(query'.key, query'.value)
                found == {j \in 1..Len(old) : old[j].key = query'.key}
            IN  /\ found # {} =>
                       /\ Len(new) = Len(old)
                       /\ \A j \in 1..Len(old) :
                              new[j] = IF j = Min(found) THEN header ELSE old[j]
                /\ found = {} => new = Append(old, header)
                /\ DOMAIN http'[1] = DOMAIN http[1]
                /\ \A field \in DOMAIN http[1] \ {"headers"} :
                       http'[1][field] = http[1][field]
      ]_vars

C22_Witness ==
    /\ http # None /\ ~IsRequest(http[1])
    /\ Len(http[1].headers) = 4
    /\ http[1].headers[1] = HttpHeader_new(<<"K">>, <<"K">>)
    /\ http[1].headers[3] = HttpHeader_new(<<"K">>, <<"K">>)
    /\ http[1].headers[4].key = <<"G">>
    /\ query.op = "set_header"

\* C23: rendering the HttpVersion built from a text yields the text when it
\* starts with HTTP/ and HTTP/ followed by the text otherwise, so the
\* rendered text always starts with HTTP/; a version built from a rendered
\* text renders to the same text.
C23_VersionRendering ==
    /\ (pc \in {"version", "version_again"} /\ query.op = "HttpVersion.fmt") =>
           LET prefixed == /\ Len(input) >= 5
                           /\ SubSeq(input, 1, 5) = <<"H", "T", "T", "P", "/">>
           IN  /\ query.result = IF prefixed THEN input
                                 ELSE <<"H", "T", "T", "P", "/">> \o input
               /\ SubSeq(query.result, 1, 5) = <<"H", "T", "T", "P", "/">>
    /\ (pc = "version_again") => query.result = query.text

C23_Witness ==
    /\ pc = "version_again"
    /\ input = <<"1", "/", "1">>
    /\ query.result = <<"H", "T", "T", "P", "/", "1", "/", "1">>

MethodVariants ==
    { <<<<"G", "E", "T">>, "GET">>, <<<<"P", "O", "S", "T">>, "POST">>,
      <<<<"P", "U", "T">>, "PUT">>, <<<<"P", "A", "T", "C", "H">>, "PATCH">>,
      <<<<"D", "E", "L", "E", "T", "E">>, "DELETE">>,
      <<<<"H", "E", "A", "D">>, "HEAD">>,
      <<<<"O", "P", "T", "I", "O", "N", "S">>, "OPTIONS">> }

\* C24: HttpMethod::from yields the named variant exactly when the text is
\* one of GET, POST, PUT, PATCH, DELETE, HEAD, OPTIONS in upper case, and
\* Other carrying the text unchanged otherwise; never Other carrying one of
\* the seven names.
C24_MethodVariants ==
    pc = "method" =>
        /\ \A pair \in MethodVariants :
               (input = pair[1]) <=> (query.result.variant = pair[2])
        /\ (\A pair \in MethodVariants : input # pair[1]) =>
               query.result = [variant |-> "Other", text |-> input]
        /\ query.result.variant = "Other" =>
               \A pair \in MethodVariants : query.result.text # pair[1]

C24_Witness ==
    /\ pc = "method"
    /\ input = <<"g", "e", "t">>
    /\ query.result = [variant |-> "Other", text |-> <<"g", "e", "t">>]


-----------------------------------------------------------------------------
(* Strict and lenient parsing of one buffer *)

\* the lenient view holds the spans of the strict view
SameSpans(lenient, strict) ==
    /\ lenient.method = Some(strict.method)
    /\ lenient.uri = Some(strict.uri)
    /\ lenient.http_version = Some(strict.http_version)
    /\ lenient.headers = strict.headers
    /\ lenient.body = strict.body

\* C25: for every buffer on which the strict from_str returns a view, the
\* lenient from_str of the same buffer returns a view too, with the same
\* method, target and version spans, the same header spans and the same body.
C25_LenientAgreesWithStrict ==
    (pc = "parsed" /\ parsed.kind = "Ok") =>
        /\ PartialHttpRequest_from_str(input).kind = "Ok"
        /\ SameSpans(PartialHttpRequest_from_str(input).view, parsed.view)

\* the same for the buffers on which both return a view
C25_LenientAgreesWhenReturned ==
    ( /\ pc = "parsed" /\ parsed.kind = "Ok"
      /\ PartialHttpRequest_from_str(input).kind = "Ok" ) =>
        SameSpans(PartialHttpRequest_from_str(input).view, parsed.view)


-----------------------------------------------------------------------------
(* Carriage return + line feed *)

\* the first line of the buffer ends with carriage return + line feed
FirstLineEndsCrLf ==
    /\ FirstLineEnd >= 2
    /\ input[FirstLineEnd] = LF
    /\ input[FirstLineEnd - 1] = CR

\* byte offset of the carriage return that ends the first line
FirstLineCr == FirstLineEnd - 2

\* every line span ends with the first line feed in it (or at the end of
\* the buffer), and so holds the carriage return before that line feed
CrStaysInLine ==
    pc = "line_spans" =>
        \A i \in 1..Len(line_spans[1]) :
            LET span == line_spans[1][i]
            IN  /\ \A j \in (span.start + 1)..(span.end - 1) : input[j] # LF
                /\ input[span.end] = LF \/ span.end = Len(input)
                /\ (span.end >= 2 /\ input[span.end] = LF
                        /\ input[span.end - 1] = CR)
                   => span.start <= span.end - 2

\* a line that is carriage return + line feed and comes before every
\* terminator-only line is a header line of the view, not the separator;
\* with no terminator-only line the view has no body
CrLfLineIsNoSeparator ==
    \A view \in OkViews :
        LET ls == get_line_spans(input)
            blanks == TerminatorOnlyLines(input)
        IN  /\ \A i \in 2..Len(ls) :
                   ( /\ Slice(input, ls[i]) = <<CR, LF>>
                     /\ \A b \in blanks : i < b )
                   => \E h \in 1..Len(view.headers) : view.headers[h] = ls[i]
            /\ blanks = {} => view.body = None

\* C26 as stated: only a line feed ends a line; the carriage return of a
\* carriage-return + line-feed ending stays inside the span of the line it
\* ends and inside the last request-line token before it, and a line that
\* is carriage return + line feed is not taken as the blank-line separator.
C26_CrStaysInLineAndToken ==
    /\ CrStaysInLine
    /\ (pc = "first_line" /\ FirstLineEndsCrLf) =>
           \E token \in FirstLineSpans :
               token.start <= FirstLineCr /\ FirstLineCr < token.end
    /\ CrLfLineIsNoSeparator

\* C26 amended: only a line feed ends a line and the carriage return stays
\* inside the span of the line it ends, but it is whitespace to
\* parse_first_line: the last request-line token before it ends at the
\* carriage return and no token holds it; a line that is carriage return +
\* line feed is not taken as the blank-line separator.
C26_CrStaysInLineEndsToken ==
    /\ CrStaysInLine
    /\ (pc = "first_line" /\ FirstLineEndsCrLf) =>
           /\ \E token \in FirstLineSpans : token.end = FirstLineCr
           /\ \A token \in FirstLineSpans :
                  ~(token.start <= FirstLineCr /\ FirstLineCr < token.end)
    /\ CrLfLineIsNoSeparator

C26_Witness ==
    /\ pc = "partial" /\ partial.kind = "Ok"
    /\ FirstLineEndsCrLf
    /\ partial.view.http_version = Some(Span(4, 5))
    /\ Len(partial.view.headers) >= 2
    /\ Slice(input, partial.view.headers[2]) = <<CR, LF>>
    /\ partial.view.body = None


-----------------------------------------------------------------------------
(* Presence of the request-line fields *)

\* C27: in every view the lenient from_str returns, a present version
\* implies a present target and a present target implies a present method;
\* hence a conversion that fails naming the method is the conversion of a
\* view in which the target and the version are absent too.
C27_FieldsPresentAsPrefix ==
    (pc = "partial" /\ partial.kind = "Ok") =>
        LET view == partial.view
        IN  /\ view.http_version # None => view.uri # None
            /\ view.uri # None => view.method # None
            /\ ( /\ query.op = "partial.try_into"
                 /\ query.result = Err(Error_missing_required("method")) )
               => (view.uri = None /\ view.http_version = None)

C27_Witness ==
    /\ pc = "partial" /\ partial.kind = "Ok"
    /\ partial.view.method # None
    /\ partial.view.uri = None
    /\ partial.view.http_version = None
    /\ query.op = "partial.try_into"
    /\ query.result = Err(Error_missing_required("uri"))


-----------------------------------------------------------------------------
(* Coverage of the buffer after the first line *)

\* span covers the byte at offset b
Covers(span, b) == span.start <= b /\ b < span.end

\* how many of the header spans, the first terminator-only line and the
\* body span of the view cover the byte at offset b
Coverage(view, b) ==
    LET ls == get_line_spans(input)
        blanks == TerminatorOnlyLines(input)
    IN  Cardinality({h \in 1..Len(view.headers) : Covers(view.headers[h], b)})
        + (IF blanks # {} /\ Covers(ls[Min(blanks)], b) THEN 1 ELSE 0)
        + (IF view.body # None /\ Covers(view.body[1], b) THEN 1 ELSE 0)

\* C28: in every view from_str returns on a non-blank buffer, every byte
\* after the first line belongs to exactly one of a header span, the single
\* terminator-only separator line, or the body span.
C28_NoByteDropped ==
    \A view \in OkViews :
        ~IsBlank(input) =>
            \A b \in FirstLineEnd..(Len(input) - 1) : Coverage(view, b) = 1

====
